---- MODULE Spec2Model ----
(***************************************************************************)
(* Verification model of the slash crate: the rejection algebra            *)
(* (src/src/reject.rs) and the scoped invocation context                   *)
(* (src/src/context.rs).                                                   *)
(***************************************************************************)
EXTENDS Integers, Sequences, FiniteSets, TLC

(***************************************************************************)
(* Bounds of the model.                                                    *)
(***************************************************************************)
\* Total number of causes (leaves) held by the three operand rejections.
MaxLeaves == 3
\* Number of distinct user types implementing `Reject`.
NumCustomTypes == 2
\* Number of worker threads, each with its own CONTEXT slot.
NumThreads == 2
\* Number of invocations dispatched.
NumTasks == 2
\* Number of RefCell<Context> instances an invocation can pass to set.
CellsPerTask == 2
\* Deepest nesting of set and with calls on one thread.
MaxDepth == 3
\* Largest arity of the extraction tuple of a leaf filter.
MaxArity == 2

VARIABLES
    \* --- rejection algebra -------------------------------------------------
    a, b, c,      \* the operand rejections
    pc,           \* how far the operations on a, b, c have been applied
    comb,         \* results of combine, by name
    found,        \* results of Rejection::find, by rejection name and type
    isnf,         \* results of Rejection::is_not_found, by rejection name
    \* --- context scope ----------------------------------------------------
    CONTEXT,      \* per thread: the pointer held by the scoped thread local
    stack,        \* per thread: the calls of set and with in progress
    borrow,       \* per cell: the borrow state of the RefCell
    mutated,      \* the cells whose Context a function given to with changed
    mode,         \* per thread: idle, running a task, or unwinding a panic
    cur,          \* per thread: the invocation it runs (0: none)
    task,         \* per invocation: its state
    ret,          \* per thread: the result of is_set, or the panic, of its last step
    \* --- filter combinators -----------------------------------------------
    far,          \* per leaf filter: the arity of its extraction tuple
    fout,         \* per leaf filter: it succeeds, or the rejection it fails with
    progs,        \* the filter chains to evaluate on the one input, in turn
    run,          \* the index of the chain under evaluation (0: none yet)
    todo,         \* the evaluation's pending work, innermost last
    fval,         \* the result of the sub-filter that completed last
    flog,         \* per chain: the leaf evaluations started and completed
    fres,         \* per chain: the result of its evaluation
    \* --- command.rs -------------------------------------------------------
    builder,      \* the command builder in hand, if any
    built,        \* the result of build, if it was called
    tyret,        \* the result of ty on the built command, if it was called
    \* --- model/snowflake.rs -----------------------------------------------
    dt,           \* the DateTime given to Snowflake::new, if any
    flake,        \* the result of Snowflake::new, if it was called
    stamp,        \* the result of timestamp on that snowflake, if it was called
    \* --- filters/arg.rs ---------------------------------------------------
    invocation,   \* the options of the decoded invocation, if any
    argfilter,    \* the StringArgument filter, if any
    argout        \* the result of polling the filter's future, if it was polled

rejVars == <<a, b, c, pc, comb, found, isnf>>
ctxVars == <<CONTEXT, stack, borrow, mutated, mode, cur, task, ret>>
fltVars == <<far, fout, progs, run, todo, fval, flog, fres>>
cmdVars == <<builder, built, tyret>>
sfVars == <<dt, flake, stamp>>
argVars == <<invocation, argfilter, argout>>
restVars == <<fltVars, cmdVars, sfVars, argVars>>
vars == <<a, b, c, pc, comb, found, isnf,
          CONTEXT, stack, borrow, mutated, mode, cur, task, ret,
          far, fout, progs, run, todo, fval, flog, fres,
          builder, built, tyret, dt, flake, stamp,
          invocation, argfilter, argout>>

(***************************************************************************)
(* reject.rs: the data types.                                              *)
(***************************************************************************)
\* enum Known { DiscordApiError(DiscordApiError) }
KnownCauses == {"DiscordApiError"}

\* The user types T: Reject a custom cause can have.
CustomTypes == {"Reject" \o ToString(i) : i \in 1..NumCustomTypes}

\* The types find::<T> is asked for: the inner type of a known cause, the
\* custom types, and the enum Known itself (a 'static type as any other).
TypeIds == KnownCauses \cup CustomTypes \cup {"Known"}

\* Rejections::Known(Known)
Known(e) == [kind |-> "Known", cause |-> e]
\* Rejections::Custom(Box<dyn Cause>)
Custom(t) == [kind |-> "Custom", cause |-> t]
\* Rejections::Combined(Box<Rejections>, Box<Rejections>)
Combined(l, r) == [kind |-> "Combined", left |-> l, right |-> r]

\* Reason::NotFound
NotFound == [reason |-> "NotFound"]
\* Reason::Other(Box<Rejections>)
Other(rs) == [reason |-> "Other", rejections |-> rs]

\* Rejection::known
RejectKnown(e) == Other(Known(e))
\* Rejection::custom
RejectCustom(t) == Other(Custom(t))

\* The single causes.
LeafRejections == {Known(e) : e \in KnownCauses} \cup {Custom(t) : t \in CustomTypes}

\* The cause-sets (values of enum Rejections) with exactly n causes.
RECURSIVE RejectionsOfSize(_)
RejectionsOfSize(n) ==
    IF n = 1 THEN LeafRejections
    ELSE UNION {{Combined(l, r) : l \in RejectionsOfSize(k), r \in RejectionsOfSize(n - k)} :
                k \in 1..(n - 1)}

\* The rejections (values of struct Rejection) with exactly n causes.
RejectionOfSize(n) ==
    IF n = 0 THEN {NotFound} ELSE {Other(rs) : rs \in RejectionsOfSize(n)}

(***************************************************************************)
(* reject.rs: the operations.                                              *)
(***************************************************************************)
\* Option<&T>: a reference is the place of the cause in the tree.
None == [some |-> FALSE, ref |-> <<>>]
Some(at) == [some |-> TRUE, ref |-> at]

\* or_else that never evaluates its alternative.
OrElseFirstOnly(x, y) == x

\* or_else that prefers its alternative.
OrElseRightFirst(x, y) == IF y.some THEN y ELSE x

\* Option::or_else
OrElse(x, y) == IF x.some THEN x ELSE y

\* Known::inner_as_any followed by downcast_ref::<T>
KnownDowncast(e, T, at) == IF e = T THEN Some(at) ELSE None

\* <dyn Cause>::downcast_ref::<T>
CauseDowncast(t, T, at) == IF t = T THEN Some(at) ELSE None

\* Rejections::find::<T>, on the cause-set rs stored at place `at`.
RECURSIVE RejectionsFind(_, _, _)
RejectionsFind(rs, T, at) ==
    CASE rs.kind = "Known" -> KnownDowncast(rs.cause, T, at)
      [] rs.kind = "Custom" -> CauseDowncast(rs.cause, T, at)
      [] rs.kind = "Combined" ->
            OrElse(RejectionsFind(rs.left, T, Append(at, "a")),
                   RejectionsFind(rs.right, T, Append(at, "b")))

\* Rejection::find::<T>
Find(r, T) ==
    IF r.reason = "Other" THEN RejectionsFind(r.rejections, T, <<>>) ELSE None

\* Rejection::is_not_found
IsNotFound(r) == r.reason = "NotFound"

\* combine where a NotFound operand wins over the other operand.
CombineNotFoundWins(self, other) ==
    IF self.reason = "Other" /\ other.reason = "Other"
    THEN Other(Combined(self.rejections, other.rejections))
    ELSE NotFound

\* combine that keeps only the left operand's causes.
CombineKeepLeft(self, other) ==
    IF self.reason = "Other" THEN Other(self.rejections)
    ELSE IF other.reason = "Other" THEN Other(other.rejections)
    ELSE NotFound

\* combine that wraps a lone operand in a Combined node of its own.
CombineAlwaysPairs(self, other) ==
    CASE self.reason = "Other" /\ other.reason = "Other" ->
            Other(Combined(self.rejections, other.rejections))
      [] self.reason = "Other" /\ other.reason = "NotFound" ->
            Other(Combined(self.rejections, self.rejections))
      [] self.reason = "NotFound" /\ other.reason = "Other" ->
            Other(Combined(other.rejections, other.rejections))
      [] self.reason = "NotFound" /\ other.reason = "NotFound" -> NotFound

\* <Rejection as CombineRejection<Rejection>>::combine
Combine(self, other) ==
    CASE self.reason = "Other" /\ other.reason = "Other" ->
            Other(Combined(self.rejections, other.rejections))
      [] self.reason = "Other" /\ other.reason = "NotFound" -> Other(self.rejections)
      [] self.reason = "NotFound" /\ other.reason = "Other" -> Other(other.rejections)
      [] self.reason = "NotFound" /\ other.reason = "NotFound" -> NotFound

(***************************************************************************)
(* The filter combinators and(..) and or(..) (crate::filter), evaluated on *)
(* one input by a machine that keeps its pending work on a stack.          *)
(***************************************************************************)
LeafIds == {"a", "b", "c"}

\* Filter expressions.
Leaf(x) == [f |-> "leaf", id |-> x]
And(l, r) == [f |-> "and", l |-> l, r |-> r]
Or(l, r) == [f |-> "or", l |-> l, r |-> r]

\* Result<Extract, Rejection>
Ok(ext) == [ok |-> TRUE, ext |-> ext, rej |-> NotFound]
Err(rej) == [ok |-> FALSE, ext |-> <<>>, rej |-> rej]

\* The extraction tuple leaf x produces when it succeeds.
Extract(x) == [k \in 1..far[x] |-> <<x, k>>]

\* The result of evaluating leaf x on the input.
LeafResult(x) == IF fout[x].ok THEN Ok(Extract(x)) ELSE Err(fout[x].rej)

\* The rejections a leaf can fail with: NotFound or a single cause.
LeafFailures == RejectionOfSize(0) \cup RejectionOfSize(1)

\* What a leaf does on the input: it succeeds, or fails with a rejection.
Succeeds == [ok |-> TRUE, rej |-> NotFound]
Fails(rej) == [ok |-> FALSE, rej |-> rej]
LeafOutcomes == {Succeeds} \cup {Fails(rej) : rej \in LeafFailures}

\* Pending work: evaluate a filter, await a leaf that is being evaluated,
\* or go on with a combinator whose left operand is under evaluation
\* (and2, or2) or whose right operand is (andjoin, orjoin; held: the result
\* of the left operand).
Work(k, node, held) == [k |-> k, node |-> node, held |-> held]
NoNode == Leaf("-")
NoResult == Ok(<<>>)

TopWork == todo[Len(todo)]
Rest == SubSeq(todo, 1, Len(todo) - 1)

Evaluating == run \in 1..Len(progs) /\ todo # <<>>

\* No filter chain is evaluated.
FltIdle ==
    /\ far = [x \in LeafIds |-> 0]
    /\ fout = [x \in LeafIds |-> Succeeds]
    /\ progs = <<>>
    /\ run = 0
    /\ todo = <<>>
    /\ fval = NoResult
    /\ flog = <<>>
    /\ fres = <<>>

\* The chains evaluated on one input: an or, an and, and the two nestings of
\* an and of three filters.
Scenarios ==
    {<<Or(Leaf("a"), Leaf("b"))>>,
     <<And(Leaf("a"), Leaf("b"))>>,
     <<And(And(Leaf("a"), Leaf("b")), Leaf("c")),
       And(Leaf("a"), And(Leaf("b"), Leaf("c")))>>}

RECURSIVE LeavesOf(_)
LeavesOf(e) == IF e.f = "leaf" THEN {e.id} ELSE LeavesOf(e.l) \cup LeavesOf(e.r)

\* The operands of an or share their extraction type.
RECURSIVE WellTyped(_)
RECURSIVE Arity(_)
Arity(e) ==
    CASE e.f = "leaf" -> far[e.id]
      [] e.f = "and" -> Arity(e.l) + Arity(e.r)
      [] e.f = "or" -> Arity(e.l)
WellTyped(e) ==
    CASE e.f = "leaf" -> TRUE
      [] e.f = "and" -> WellTyped(e.l) /\ WellTyped(e.r)
      [] e.f = "or" -> WellTyped(e.l) /\ WellTyped(e.r) /\ Arity(e.l) = Arity(e.r)

FltStart ==
    /\ progs \in Scenarios
    /\ far \in [LeafIds -> 0..MaxArity]
    /\ fout \in [LeafIds -> LeafOutcomes]
    /\ \A x \in LeafIds \ LeavesOf(progs[1]) : far[x] = 0 /\ fout[x] = Succeeds
    /\ \A k \in 1..Len(progs) : WellTyped(progs[k])
    /\ run = 0
    /\ todo = <<>>
    /\ fval = NoResult
    /\ flog = [k \in 1..Len(progs) |-> <<>>]
    /\ fres = <<>>

\* The next chain is evaluated.
Begin ==
    /\ todo = <<>>
    /\ run = Len(fres)
    /\ run < Len(progs)
    /\ run' = run + 1
    /\ todo' = <<Work("eval", progs[run + 1], NoResult)>>
    /\ fval' = NoResult
    /\ UNCHANGED <<far, fout, progs, flog, fres, rejVars, ctxVars, cmdVars, sfVars, argVars>>

\* and / or: the left operand is evaluated first.
Descend ==
    /\ Evaluating
    /\ TopWork.k = "eval"
    /\ TopWork.node.f \in {"and", "or"}
    /\ todo' = Rest \o <<Work(IF TopWork.node.f = "and" THEN "and2" ELSE "or2",
                              TopWork.node.r, NoResult),
                         Work("eval", TopWork.node.l, NoResult)>>
    /\ UNCHANGED <<far, fout, progs, run, fval, flog, fres, rejVars, ctxVars, cmdVars, sfVars, argVars>>

\* The evaluation of a leaf starts; it may suspend before it resolves.
LeafStart ==
    /\ Evaluating
    /\ TopWork.k = "eval"
    /\ TopWork.node.f = "leaf"
    /\ flog' = [flog EXCEPT ![run] = Append(@, <<"start", TopWork.node.id>>)]
    /\ todo' = Rest \o <<Work("await", TopWork.node, NoResult)>>
    /\ UNCHANGED <<far, fout, progs, run, fval, fres, rejVars, ctxVars, cmdVars, sfVars, argVars>>

\* The evaluation of a leaf resolves.
LeafEnd ==
    /\ Evaluating
    /\ TopWork.k = "await"
    /\ flog' = [flog EXCEPT ![run] = Append(@, <<"end", TopWork.node.id>>)]
    /\ fval' = LeafResult(TopWork.node.id)
    /\ todo' = Rest
    /\ UNCHANGED <<far, fout, progs, run, fres, rejVars, ctxVars, cmdVars, sfVars, argVars>>

\* or that always goes on to its right operand.
OrTriesOtherAlways(left) == TRUE

\* or goes on to its right operand only when the left one rejected.
OrTriesOther(left) == ~left.ok

\* or: the left operand has completed.
OrLeft ==
    /\ Evaluating
    /\ TopWork.k = "or2"
    /\ IF OrTriesOther(fval)
       THEN todo' = Rest \o <<Work("orjoin", NoNode, fval),
                              Work("eval", TopWork.node, NoResult)>>
       ELSE todo' = Rest
    /\ UNCHANGED <<far, fout, progs, run, fval, flog, fres, rejVars, ctxVars, cmdVars, sfVars, argVars>>

\* or: the right operand has completed; two rejections are combined.
OrRight ==
    /\ Evaluating
    /\ TopWork.k = "orjoin"
    /\ fval' = IF fval.ok THEN fval
              ELSE IF TopWork.held.ok THEN TopWork.held
              ELSE Err(Combine(TopWork.held.rej, fval.rej))
    /\ todo' = Rest
    /\ UNCHANGED <<far, fout, progs, run, flog, fres, rejVars, ctxVars, cmdVars, sfVars, argVars>>

\* and that goes on to its right operand whatever the left one gave.
AndGoesOnAlways(left) == TRUE

\* and goes on to its right operand only when the left one succeeded.
AndGoesOn(left) == left.ok

\* and: the left operand has completed.
AndLeft ==
    /\ Evaluating
    /\ TopWork.k = "and2"
    /\ IF AndGoesOn(fval)
       THEN todo' = Rest \o <<Work("andjoin", NoNode, fval),
                              Work("eval", TopWork.node, NoResult)>>
       ELSE todo' = Rest
    /\ UNCHANGED <<far, fout, progs, run, fval, flog, fres, rejVars, ctxVars, cmdVars, sfVars, argVars>>

\* A concatenation that keeps only the first element of the left tuple.
ConcatLeftHead(x, y) == (IF x = <<>> THEN <<>> ELSE <<x[1]>>) \o y

\* The concatenation of two extraction tuples: flat, left elements first.
Concat(x, y) == x \o y

\* and: the right operand has completed; two extractions are concatenated.
AndRight ==
    /\ Evaluating
    /\ TopWork.k = "andjoin"
    /\ fval' = IF ~TopWork.held.ok THEN TopWork.held
              ELSE IF fval.ok THEN Ok(Concat(TopWork.held.ext, fval.ext))
              ELSE fval
    /\ todo' = Rest
    /\ UNCHANGED <<far, fout, progs, run, flog, fres, rejVars, ctxVars, cmdVars, sfVars, argVars>>

\* The evaluation of the chain is complete.
Finish ==
    /\ run \in 1..Len(progs)
    /\ todo = <<>>
    /\ Len(fres) < run
    /\ fres' = Append(fres, fval)
    /\ UNCHANGED <<far, fout, progs, run, todo, fval, flog, rejVars, ctxVars, cmdVars, sfVars, argVars>>

FltNext ==
    \/ Begin \/ Descend \/ LeafStart \/ LeafEnd
    \/ OrLeft \/ OrRight \/ AndLeft \/ AndRight \/ Finish

(***************************************************************************)
(***************************************************************************)
(* command.rs: the command builders, build and Command::ty.                *)
(***************************************************************************)
\* How many non-empty names, and how many guild ids, the setters draw from.
NumNames == 2
NumGuilds == 2

\* String::new()
EmptyString == ""
Strings == {EmptyString} \cup {"n" \o ToString(i) : i \in 1..NumNames}
GuildIds == 1..NumGuilds
Executors == {"default", "given"}

\* enum ApplicationCommandType
ChatInput == "ChatInput"
User == "User"
Message == "Message"

CommandMeta(name, description, guild_id, default_permission) ==
    [name |-> name, description |-> description, guild_id |-> guild_id,
     default_permission |-> default_permission]

\* struct ChatInputCommand / MessageCommand / UserCommand
ChatInputCommand(meta, executor) ==
    [struct |-> "ChatInputCommand", meta |-> meta, executor |-> executor]
MessageCommand(meta, executor) ==
    [struct |-> "MessageCommand", meta |-> meta, executor |-> executor]
UserCommand(meta, executor) ==
    [struct |-> "UserCommand", meta |-> meta, executor |-> executor]

\* Command::ty
Ty(self) ==
    CASE self.struct = "ChatInputCommand" -> ChatInput
      [] self.struct = "MessageCommand" -> ChatInput
      [] self.struct = "UserCommand" -> ChatInput

\* Result<T, Box<dyn Error>>
BuildOk(command) == [ok |-> TRUE, value |-> command]

\* No builder was created.
CmdIdle ==
    /\ builder = None
    /\ built = None
    /\ tyret = None

\* ChatInputCommandBuilder::new
NewChatInput ==
    /\ ~builder.some
    /\ ~built.some
    /\ builder' = Some(ChatInputCommand(
                      CommandMeta(EmptyString, EmptyString, None, FALSE), "default"))
    /\ UNCHANGED <<built, tyret, rejVars, ctxVars, fltVars, sfVars, argVars>>

\* MessageCommandBuilder::new
NewMessage ==
    /\ ~builder.some
    /\ ~built.some
    /\ builder' = Some(MessageCommand(
                      CommandMeta(EmptyString, EmptyString, None, FALSE), "default"))
    /\ UNCHANGED <<built, tyret, rejVars, ctxVars, fltVars, sfVars, argVars>>

Inner == builder.ref
WithMeta(field, value) ==
    Some([Inner EXCEPT !.meta = [Inner.meta EXCEPT ![field] = value]])

SetName ==
    /\ builder.some
    /\ \E name \in Strings : builder' = WithMeta("name", name)
    /\ UNCHANGED <<built, tyret, rejVars, ctxVars, fltVars, sfVars, argVars>>

SetDescription ==
    /\ builder.some
    /\ \E description \in Strings : builder' = WithMeta("description", description)
    /\ UNCHANGED <<built, tyret, rejVars, ctxVars, fltVars, sfVars, argVars>>

SetGuildId ==
    /\ builder.some
    /\ \E guild_id \in GuildIds : builder' = WithMeta("guild_id", Some(guild_id))
    /\ UNCHANGED <<built, tyret, rejVars, ctxVars, fltVars, sfVars, argVars>>

SetDefaultPermission ==
    /\ builder.some
    /\ \E default_permission \in BOOLEAN :
          builder' = WithMeta("default_permission", default_permission)
    /\ UNCHANGED <<built, tyret, rejVars, ctxVars, fltVars, sfVars, argVars>>

OnExecute ==
    /\ builder.some
    /\ builder' = Some([Inner EXCEPT !.executor = "given"])
    /\ UNCHANGED <<built, tyret, rejVars, ctxVars, fltVars, sfVars, argVars>>

\* build consumes the builder.
Build ==
    /\ builder.some
    /\ built' = Some(BuildOk(Inner))
    /\ builder' = None
    /\ UNCHANGED <<tyret, rejVars, ctxVars, fltVars, sfVars, argVars>>

\* ty is called on the command build returned.
CallTy ==
    /\ built.some
    /\ built.ref.ok
    /\ ~tyret.some
    /\ tyret' = Some(Ty(built.ref.value))
    /\ UNCHANGED <<builder, built, rejVars, ctxVars, fltVars, sfVars, argVars>>

CmdNext ==
    \/ NewChatInput \/ NewMessage
    \/ SetName \/ SetDescription \/ SetGuildId \/ SetDefaultPermission
    \/ OnExecute \/ Build \/ CallTy

(***************************************************************************)
(* filters/arg.rs: the string argument filter and its future.              *)
(***************************************************************************)
\* How many option names an invocation and a filter draw from.
NumArgs == 2

ArgNames == {"arg" \o ToString(i) : i \in 1..NumArgs}

\* What the decoded invocation holds for an option name.
Absent == [present |-> FALSE, type |-> "-", value |-> ""]
StringValue(str) == [present |-> TRUE, type |-> "String", value |-> str]
IntegerValue(str) == [present |-> TRUE, type |-> "Integer", value |-> str]
OptionValues == {Absent, StringValue(""), StringValue("hello"), IntegerValue("7")}

\* struct StringArgument, as string(name, description) makes it
StringArgument(name, description) == [name |-> name, description |-> description]

\* Poll::Ready(Result<One<String>, Rejection>), or the panic of the call
Ready(result, ext, cause) == [result |-> result, ext |-> ext, cause |-> cause]
Panicked(message) == Ready("panic", <<>>, message)

\* FilterBase::filter
Filter(self, internal) == Panicked("not yet implemented")

\* StringArgFut::poll
StringArgFutPoll(internal) == Ready("Ok", <<"">>, "")

\* string(name, description)
String ==
    /\ invocation.some
    /\ ~argfilter.some
    /\ \E name \in ArgNames, description \in {"", "d"} :
          argfilter' = Some(StringArgument(name, description))
    /\ UNCHANGED <<invocation, argout, rejVars, ctxVars, fltVars, cmdVars, sfVars>>

\* The filter is evaluated on the invocation.
CallFilter ==
    /\ argfilter.some
    /\ ~argout.some
    /\ argout' = Some(Filter(argfilter.ref, invocation.ref))
    /\ UNCHANGED <<invocation, argfilter, rejVars, ctxVars, fltVars, cmdVars, sfVars>>

\* A StringArgFut is polled while the invocation is handled.
PollFuture ==
    /\ argfilter.some
    /\ ~argout.some
    /\ argout' = Some(StringArgFutPoll(invocation.ref))
    /\ UNCHANGED <<invocation, argfilter, rejVars, ctxVars, fltVars, cmdVars, sfVars>>

ArgNext == String \/ CallFilter \/ PollFuture

(***************************************************************************)
(* model/snowflake.rs: Snowflake::new and Snowflake::timestamp.  A u64 is  *)
(* kept as NumLimbs limbs of 11 bits, least significant first, the last of *)
(* them holding the top 9 bits, so that all arithmetic stays in range.     *)
(***************************************************************************)
NumLimbs == 6
LimbBase == 2048
TopLimbBase == 512

LimbIdx == 1..NumLimbs
LimbMod(i) == IF i = NumLimbs THEN TopLimbBase ELSE LimbBase

\* The u64 of a small number.
RECURSIVE Digit(_, _)
Digit(n, i) == IF i = 1 THEN n % LimbBase ELSE Digit(n \div LimbBase, i - 1)
FromInt(n) == [i \in LimbIdx |-> Digit(n, i)]

\* x + y on u64, wrapping.
RECURSIVE AddCarry(_, _, _)
AddCarry(x, y, i) ==
    IF i = 1 THEN 0 ELSE (x[i - 1] + y[i - 1] + AddCarry(x, y, i - 1)) \div LimbBase
WrappingAdd(x, y) ==
    [i \in LimbIdx |-> (x[i] + y[i] + AddCarry(x, y, i)) % LimbMod(i)]

\* x - y on u64, wrapping; Less(x, y): the subtraction overflows.
RECURSIVE SubBorrow(_, _, _)
SubBorrow(x, y, i) ==
    IF i = 1 THEN 0
    ELSE IF x[i - 1] - y[i - 1] - SubBorrow(x, y, i - 1) < 0 THEN 1 ELSE 0
WrappingSub(x, y) ==
    [i \in LimbIdx |-> (x[i] - y[i] - SubBorrow(x, y, i)) % LimbMod(i)]
Less(x, y) ==
    x[NumLimbs] - y[NumLimbs] - SubBorrow(x, y, NumLimbs) < 0

\* x * m on u64, wrapping, for a small m.
RECURSIVE MulCarry(_, _, _)
MulCarry(x, m, i) ==
    IF i = 1 THEN 0 ELSE (x[i - 1] * m + MulCarry(x, m, i - 1)) \div LimbBase
WrappingMul(x, m) ==
    [i \in LimbIdx |-> (x[i] * m + MulCarry(x, m, i)) % LimbMod(i)]

\* x / m and x % m on u64, for a small m: long division from the top limb.
RECURSIVE Partial(_, _, _)
Partial(x, m, i) ==
    (IF i = NumLimbs THEN 0 ELSE (Partial(x, m, i + 1) % m) * LimbBase) + x[i]
Div(x, m) == [i \in LimbIdx |-> Partial(x, m, i) \div m]
Rem(x, m) == Partial(x, m, 1) % m

\* x >> 11
ShrOneLimb(x) == [i \in LimbIdx |-> IF i + 1 <= NumLimbs THEN x[i + 1] ELSE 0]

\* x >> 22
Shr22(x) == [i \in LimbIdx |-> IF i + 2 <= NumLimbs THEN x[i + 2] ELSE 0]

\* x << 22: the bits shifted out are lost.
Shl22(x) == [i \in LimbIdx |-> IF i <= 2 THEN 0 ELSE x[i - 2] % LimbMod(i)]

\* pub const DISCORD_EPOCH: u64 = 1420070400000
DISCORD_EPOCH == WrappingMul(FromInt(1420070400), 1000)

\* DateTime<Utc>: seconds since 1970 (not negative here) and nanoseconds.
DateTime(secs, nanos) == [secs |-> secs, nanos |-> nanos]

\* DateTime::timestamp_millis
TimestampMillis(d) ==
    WrappingAdd(WrappingMul(d.secs, 1000), FromInt(d.nanos \div 1000000))

\* struct Snowflake, or the panic of an overflow check
Snowflake(inner) == [panic |-> FALSE, inner |-> inner]
Overflowed == [panic |-> TRUE, inner |-> FromInt(0)]

\* Snowflake::new: the results the build profiles give.  The subtraction
\* panics on overflow where overflow checks are on and wraps where not.
New(d) ==
    LET delta == WrappingSub(TimestampMillis(d), DISCORD_EPOCH)
    IN  IF Less(TimestampMillis(d), DISCORD_EPOCH)
        THEN {Overflowed, Snowflake(Shl22(delta))}
        ELSE {Snowflake(Shl22(delta))}

\* Snowflake::timestamp
Timestamp(self) ==
    LET millis == WrappingAdd(Shr22(self.inner), DISCORD_EPOCH)
        secs == Div(millis, 1000)
        nanos == Rem(millis, 1000) * 1000000
    IN  DateTime(secs, nanos)

\* The instants given to new: the one of tests::test_snowflake_new, and
\* instants whose seconds are made of extreme limbs, before and after the
\* epoch, within and beyond 42 bits of offset, with and without a fraction
\* of a millisecond.
SecsSamples ==
    {FromInt(1644320531)} \cup
    {[i \in LimbIdx |-> CASE i = 1 -> l1 [] i = 2 -> l2 [] i = 3 -> l3
                          [] i = 4 -> l4 [] OTHER -> 0] :
        l1 \in {0, 1, 2047}, l2 \in {0, 1024, 2047},
        l3 \in {0, 338, 339, 1387, 2047}, l4 \in {0, 1}}
NanosSamples == {0, 1000000, 922000000, 999000000, 740000001}

\* Snowflake::new(dt)
SnowflakeNew ==
    /\ dt.some
    /\ ~flake.some
    /\ \E snowflake \in New(dt.ref) : flake' = Some(snowflake)
    /\ UNCHANGED <<dt, stamp, rejVars, ctxVars, fltVars, cmdVars, argVars>>

\* snowflake.timestamp()
SnowflakeTimestamp ==
    /\ flake.some
    /\ ~flake.ref.panic
    /\ ~stamp.some
    /\ stamp' = Some(Timestamp(flake.ref))
    /\ UNCHANGED <<dt, flake, rejVars, ctxVars, fltVars, cmdVars, argVars>>

SfNext == SnowflakeNew \/ SnowflakeTimestamp

SfIdle ==
    /\ dt = None
    /\ flake = None
    /\ stamp = None

ArgIdle ==
    /\ invocation = None
    /\ argfilter = None
    /\ argout = None

RestIdle == FltIdle /\ CmdIdle /\ SfIdle /\ ArgIdle

(***************************************************************************)
(* context.rs: the scoped thread local CONTEXT and its three operations.   *)
(***************************************************************************)
Threads == 1..NumThreads
Tasks == 1..NumTasks

\* The RefCell<Context> instances; each belongs to one invocation.
Cells == 1..(NumTasks * CellsPerTask)
Owner(cell) == ((cell - 1) \div CellsPerTask) + 1

\* The null pointer a scoped thread local holds while nothing is set.
Null == 0

\* A storage slot shared by all threads.
SlotShared(t) == 1

\* scoped_thread_local!: the storage slot thread t reads and writes.
Slot(t) == t

\* A call in progress: set(r, func) remembers the pointer it replaced,
\* with(func) holds the RefMut of the cell it borrowed.
SetFrame(cell, prev) == [op |-> "set", cell |-> cell, prev |-> prev]
WithFrame(cell) == [op |-> "with", cell |-> cell, prev |-> Null]

Top(t) == stack[t][Len(stack[t])]
Pop(t) == [stack EXCEPT ![t] = SubSeq(stack[t], 1, Len(stack[t]) - 1)]
Push(t, f) == [stack EXCEPT ![t] = Append(stack[t], f)]

\* The state before any invocation is dispatched.
CtxStart ==
    /\ CONTEXT = [t \in Threads |-> Null]
    /\ stack = [t \in Threads |-> <<>>]
    /\ borrow = [cell \in Cells |-> 0]
    /\ mutated = {}
    /\ mode = [t \in Threads |-> "idle"]
    /\ cur = [t \in Threads |-> 0]
    /\ task = [i \in Tasks |-> "ready"]
    /\ ret = [t \in Threads |-> "none"]

\* The code of an invocation runs on thread t.
Running(t) == mode[t] = "run"

\* context::set, the call: CONTEXT.set(r, func) saves the pointer, installs r
\* and runs func.
SetCall(t, cell) ==
    /\ Running(t)
    /\ Len(stack[t]) < MaxDepth
    /\ Owner(cell) = cur[t]
    /\ stack' = Push(t, SetFrame(cell, CONTEXT[Slot(t)]))
    /\ CONTEXT' = [CONTEXT EXCEPT ![Slot(t)] = cell]
    /\ ret' = [ret EXCEPT ![t] = "none"]
    /\ UNCHANGED <<borrow, mutated, mode, cur, task, rejVars, restVars>>

\* A return from set that leaves the pointer as it is.
RestoreKeep(f, now) == now

\* A return from set that clears the pointer.
RestoreNull(f, now) == Null

\* The pointer a return from set leaves in the slot: the one it replaced.
Restore(f, now) == f.prev

\* context::set, the return: func has returned, the pointer is put back.
SetReturn(t) ==
    /\ Running(t)
    /\ stack[t] # <<>>
    /\ Top(t).op = "set"
    /\ stack' = Pop(t)
    /\ CONTEXT' = [CONTEXT EXCEPT ![Slot(t)] = Restore(Top(t), CONTEXT[Slot(t)])]
    /\ ret' = [ret EXCEPT ![t] = "none"]
    /\ UNCHANGED <<borrow, mutated, mode, cur, task, rejVars, restVars>>

\* context::is_set
IsSet(t) ==
    /\ Running(t)
    /\ ret' = [ret EXCEPT ![t] = IF CONTEXT[Slot(t)] # Null THEN "true" ELSE "false"]
    /\ UNCHANGED <<CONTEXT, stack, borrow, mutated, mode, cur, task, rejVars, restVars>>

\* Access without the check that a scope is set.
AccessUnchecked(val, brw) ==
    IF val # Null /\ brw[val] # 0 THEN "panic: already borrowed" ELSE "run"

\* Access that hands out the pointer without borrowing the RefCell.
AccessUnborrowed(val, brw) ==
    IF val = Null THEN "panic: not set" ELSE "run"

\* What CONTEXT.with followed by borrow_mut does with the pointer val: it
\* panics when nothing is set or the cell is already borrowed.
Access(val, brw) ==
    IF val = Null THEN "panic: not set"
    ELSE IF brw[val] # 0 THEN "panic: already borrowed"
    ELSE "run"

\* context::with, the call: on a panic func is not run; otherwise func gets
\* the mutable borrow of the cell the slot points to.
WithCall(t) ==
    /\ Running(t)
    /\ LET val == CONTEXT[Slot(t)]
       IN IF Access(val, borrow) # "run"
          THEN /\ mode' = [mode EXCEPT ![t] = "unwind"]
               /\ ret' = [ret EXCEPT ![t] = Access(val, borrow)]
               /\ UNCHANGED <<stack, borrow>>
          ELSE /\ Len(stack[t]) < MaxDepth
               /\ stack' = Push(t, WithFrame(val))
               /\ borrow' = [cell \in Cells |-> IF cell = val THEN 1 ELSE borrow[cell]]
               /\ ret' = [ret EXCEPT ![t] = "none"]
               /\ UNCHANGED mode
    /\ UNCHANGED <<CONTEXT, mutated, cur, task, rejVars, restVars>>

\* The function given to with writes through its &mut Context.
Mutate(t) ==
    /\ Running(t)
    /\ stack[t] # <<>>
    /\ Top(t).op = "with"
    /\ mutated' = mutated \cup {Top(t).cell}
    /\ ret' = [ret EXCEPT ![t] = "none"]
    /\ UNCHANGED <<CONTEXT, stack, borrow, mode, cur, task, rejVars, restVars>>

\* context::with, the return: func has returned, the RefMut is dropped.
WithReturn(t) ==
    /\ Running(t)
    /\ stack[t] # <<>>
    /\ Top(t).op = "with"
    /\ stack' = Pop(t)
    /\ borrow' = [borrow EXCEPT ![Top(t).cell] = 0]
    /\ ret' = [ret EXCEPT ![t] = "none"]
    /\ UNCHANGED <<CONTEXT, mutated, mode, cur, task, rejVars, restVars>>

\* The code of the invocation panics.
Panic(t) ==
    /\ Running(t)
    /\ mode' = [mode EXCEPT ![t] = "unwind"]
    /\ ret' = [ret EXCEPT ![t] = "panic"]
    /\ UNCHANGED <<CONTEXT, stack, borrow, mutated, cur, task, rejVars, restVars>>

\* An unwinding that runs no destructor for set.
UnwindKeep(f, now) == now

\* The pointer the unwinding of a set call leaves in the slot: the guard of
\* set is dropped and puts back the pointer it replaced.
UnwindReset(f, now) == f.prev

\* A panic unwinds one call: the guard of set, or the RefMut of with, drops.
Unwind(t) ==
    /\ mode[t] = "unwind"
    /\ stack[t] # <<>>
    /\ stack' = Pop(t)
    /\ IF Top(t).op = "set"
       THEN /\ CONTEXT' = [CONTEXT EXCEPT
                             ![Slot(t)] = UnwindReset(Top(t), CONTEXT[Slot(t)])]
            /\ UNCHANGED borrow
       ELSE /\ borrow' = [cell \in Cells |->
                            IF cell = Top(t).cell THEN 0 ELSE borrow[cell]]
            /\ UNCHANGED CONTEXT
    /\ UNCHANGED <<mutated, mode, cur, task, ret, rejVars, restVars>>

(***************************************************************************)
(* The dispatcher: one task per invocation, polled on any idle thread.     *)
(***************************************************************************)
\* A thread polls a task that is ready or was suspended.
Poll(t, i) ==
    /\ mode[t] = "idle"
    /\ task[i] \in {"ready", "suspended"}
    /\ mode' = [mode EXCEPT ![t] = "run"]
    /\ cur' = [cur EXCEPT ![t] = i]
    /\ task' = [task EXCEPT ![i] = "running"]
    /\ UNCHANGED <<CONTEXT, stack, borrow, mutated, ret, rejVars, restVars>>

\* The poll returns to the dispatcher: the task suspends at an I/O boundary
\* or completes. Every call the poll made has returned.
Return(t, how) ==
    /\ Running(t)
    /\ stack[t] = <<>>
    /\ mode' = [mode EXCEPT ![t] = "idle"]
    /\ task' = [task EXCEPT ![cur[t]] = how]
    /\ cur' = [cur EXCEPT ![t] = 0]
    /\ ret' = [ret EXCEPT ![t] = "none"]
    /\ UNCHANGED <<CONTEXT, stack, borrow, mutated, rejVars, restVars>>

\* The panic has unwound every call of the poll: the task is aborted.
Abort(t) ==
    /\ mode[t] = "unwind"
    /\ stack[t] = <<>>
    /\ mode' = [mode EXCEPT ![t] = "idle"]
    /\ task' = [task EXCEPT ![cur[t]] = "faulted"]
    /\ cur' = [cur EXCEPT ![t] = 0]
    /\ ret' = [ret EXCEPT ![t] = "none"]
    /\ UNCHANGED <<CONTEXT, stack, borrow, mutated, rejVars, restVars>>

\* The dispatcher cancels a suspended task and drops its evaluation.
Cancel(i) ==
    /\ task[i] = "suspended"
    /\ task' = [task EXCEPT ![i] = "cancelled"]
    /\ UNCHANGED <<CONTEXT, stack, borrow, mutated, mode, cur, ret, rejVars, restVars>>

CtxNext ==
    \/ \E t \in Threads, cell \in Cells : SetCall(t, cell)
    \/ \E t \in Threads : SetReturn(t)
    \/ \E t \in Threads : IsSet(t)
    \/ \E t \in Threads : WithCall(t)
    \/ \E t \in Threads : Mutate(t)
    \/ \E t \in Threads : WithReturn(t)
    \/ \E t \in Threads : Panic(t)
    \/ \E t \in Threads : Unwind(t)
    \/ \E t \in Threads, i \in Tasks : Poll(t, i)
    \/ \E t \in Threads, how \in {"suspended", "done"} : Return(t, how)
    \/ \E t \in Threads : Abort(t)
    \/ \E i \in Tasks : Cancel(i)

\* The operand rejections play no part in the context scope.
RejIdle ==
    /\ a = NotFound /\ b = NotFound /\ c = NotFound
    /\ pc = "idle"
    /\ comb = <<>> /\ found = <<>> /\ isnf = <<>>

CtxInit == CtxStart /\ RejIdle /\ RestIdle

FltInit == FltStart /\ RejIdle /\ CtxStart /\ CmdIdle /\ SfIdle /\ ArgIdle

SpecFilter == FltInit /\ [][FltNext]_vars

CmdInit == CmdIdle /\ RejIdle /\ CtxStart /\ FltIdle /\ SfIdle /\ ArgIdle

SpecCommand == CmdInit /\ [][CmdNext]_vars

ArgInit ==
    /\ invocation \in {Some(options) : options \in [ArgNames -> OptionValues]}
    /\ argfilter = None
    /\ argout = None
    /\ RejIdle /\ CtxStart /\ FltIdle /\ CmdIdle /\ SfIdle

SpecArg == ArgInit /\ [][ArgNext]_vars

SfInit ==
    /\ dt \in {Some(DateTime(secs, nanos)) :
                  secs \in SecsSamples, nanos \in NanosSamples}
    /\ flake = None
    /\ stamp = None
    /\ RejIdle /\ CtxStart /\ FltIdle /\ CmdIdle /\ ArgIdle

SpecSnowflake == SfInit /\ [][SfNext]_vars

SpecContext == CtxInit /\ [][CtxNext]_vars

(***************************************************************************)
(* The rejection algebra applied to three operands.                        *)
(***************************************************************************)
RejInit ==
    /\ \E na, nb, nc \in 0..MaxLeaves :
          /\ na + nb + nc <= MaxLeaves
          /\ a \in RejectionOfSize(na)
          /\ b \in RejectionOfSize(nb)
          /\ c \in RejectionOfSize(nc)
    /\ pc = "start"
    /\ comb = <<>>
    /\ found = <<>>
    /\ isnf = <<>>
    /\ CtxStart
    /\ RestIdle

\* combine on the operands, and on each operand with reject_not_found().
CombineStep ==
    /\ pc = "start"
    /\ comb' = [ab |-> Combine(a, b), ba |-> Combine(b, a), bc |-> Combine(b, c),
                na |-> Combine(NotFound, a), an |-> Combine(a, NotFound)]
    /\ pc' = "combined"
    /\ UNCHANGED <<a, b, c, found, isnf, ctxVars, restVars>>

\* combine on the results: the two nestings of a, b, c.
NestStep ==
    /\ pc = "combined"
    /\ comb' = [ab |-> comb.ab, ba |-> comb.ba, bc |-> comb.bc,
                na |-> comb.na, an |-> comb.an,
                ab_c |-> Combine(comb.ab, c), a_bc |-> Combine(a, comb.bc)]
    /\ pc' = "nested"
    /\ UNCHANGED <<a, b, c, found, isnf, ctxVars, restVars>>

\* find::<T> for every T, and is_not_found, on every rejection at hand.
FindStep ==
    /\ pc = "nested"
    /\ LET all == [a |-> a, b |-> b, c |-> c, ab |-> comb.ab, ba |-> comb.ba,
                   bc |-> comb.bc, na |-> comb.na, an |-> comb.an,
                   ab_c |-> comb.ab_c, a_bc |-> comb.a_bc]
       IN /\ found' = [x \in DOMAIN all |-> [T \in TypeIds |-> Find(all[x], T)]]
          /\ isnf' = [x \in DOMAIN all |-> IsNotFound(all[x])]
    /\ pc' = "found"
    /\ UNCHANGED <<a, b, c, comb, ctxVars, restVars>>

RejNext == CombineStep \/ NestStep \/ FindStep

SpecReject == RejInit /\ [][RejNext]_vars

(***************************************************************************)
(* Properties of the rejection algebra.                                    *)
(***************************************************************************)
\* The rejection a name stands for, once every operation has been applied.
RejAt(x) ==
    CASE x = "a" -> a [] x = "b" -> b [] x = "c" -> c [] OTHER -> comb[x]

RejNames == {"a", "b", "c", "ab", "ba", "bc", "na", "an", "ab_c", "a_bc"}

\* The causes of a cause-set in document order, each with its place and type.
RECURSIVE CausesOf(_, _)
CausesOf(rs, at) ==
    IF rs.kind = "Combined"
    THEN CausesOf(rs.left, Append(at, "a")) \o CausesOf(rs.right, Append(at, "b"))
    ELSE <<[at |-> at, ty |-> rs.cause]>>

Causes(r) == IF r.reason = "Other" THEN CausesOf(r.rejections, <<>>) ELSE <<>>

\* The types of the causes a rejection carries.
CauseTypes(r) == {Causes(r)[i].ty : i \in 1..Len(Causes(r))}

\* The first cause of type T in a sequence of causes, as find reports it.
FirstOfType(cs, T) ==
    LET hits == {i \in 1..Len(cs) : cs[i].ty = T}
    IN IF hits = {} THEN None
       ELSE Some(cs[CHOOSE i \in hits : \A j \in hits : i <= j].at)

IsCombinedTree(r) == r.reason = "Other" /\ r.rejections.kind = "Combined"

\* C1: NotFound is the identity of combine: combine(NotFound, r) and
\* combine(r, NotFound) both equal r, for NotFound, single causes and
\* Combined trees alike; no Combined node is added.
Thm_C1_NotFoundIdentity ==
    pc # "start" =>
        /\ comb.na = a
        /\ comb.an = a
        /\ Causes(comb.na) = Causes(a)
        /\ Causes(comb.an) = Causes(a)

Wit_C1_NotFoundIdentity ==
    /\ pc = "combined"
    /\ IsCombinedTree(a)
    /\ comb.na = a
    /\ comb.an = a

\* C2: when both operands are not NotFound, find on combine(a, b) returns a
\* match for every cause type carried by a and for every one carried by b.
Thm_C2_CombinedHoldsBoth ==
    (pc = "found" /\ ~IsNotFound(a) /\ ~IsNotFound(b)) =>
        \A Ta \in CauseTypes(a), Tb \in CauseTypes(b) :
            found.ab[Ta].some /\ found.ab[Tb].some

Wit_C2_CombinedHoldsBoth ==
    /\ pc = "found"
    /\ ~IsNotFound(a) /\ ~IsNotFound(b)
    /\ CauseTypes(a) \cap CauseTypes(b) = {}
    /\ \E Tb \in CauseTypes(b) : found.ab[Tb].some /\ ~found.a[Tb].some

\* C3: absorption: two NotFound give NotFound; exactly one NotFound gives
\* the other operand; two non-NotFound give a Combined cause-set holding
\* both. is_not_found of the result is true iff it is true of both operands.
Thm_C3_Absorption ==
    pc = "found" =>
        /\ (IsNotFound(a) /\ IsNotFound(b)) => comb.ab = NotFound
        /\ (IsNotFound(a) /\ ~IsNotFound(b)) => comb.ab = b
        /\ (~IsNotFound(a) /\ IsNotFound(b)) => comb.ab = a
        /\ (~IsNotFound(a) /\ ~IsNotFound(b)) =>
              /\ IsCombinedTree(comb.ab)
              /\ comb.ab.rejections.left = a.rejections
              /\ comb.ab.rejections.right = b.rejections
        /\ isnf.ab = (isnf.a /\ isnf.b)
        /\ isnf.ab_c = (isnf.a /\ isnf.b /\ isnf.c)

Wit_C3_Absorption ==
    /\ pc = "found"
    /\ IsNotFound(a) /\ ~IsNotFound(b)
    /\ comb.ab = b
    /\ ~isnf.ab /\ isnf.a

\* C4: whether find locates a cause of type T depends neither on the nesting
\* nor on the order of the operands of combine.
Thm_C4_FindIgnoresNesting ==
    pc = "found" =>
        \A T \in TypeIds :
            /\ found.ab_c[T].some = found.a_bc[T].some
            /\ found.ab[T].some = found.ba[T].some

Wit_C4_FindIgnoresNesting ==
    /\ pc = "found"
    /\ ~IsNotFound(a) /\ ~IsNotFound(b) /\ ~IsNotFound(c)
    /\ comb.ab_c # comb.a_bc
    /\ \E T \in CauseTypes(c) :
          /\ T \notin CauseTypes(a) \cup CauseTypes(b)
          /\ found.ab_c[T].some /\ found.a_bc[T].some
          /\ found.ab_c[T].ref # found.a_bc[T].ref

\* C5: find returns the cause of the requested type that comes first in the
\* document order of the combine tree, and None on NotFound or when no cause
\* has that type; equal rejections give equal results.
Thm_C5_FindLeftmost ==
    pc = "found" =>
        /\ \A x \in RejNames, T \in TypeIds :
              found[x][T] = FirstOfType(Causes(RejAt(x)), T)
        /\ \A x, y \in RejNames : RejAt(x) = RejAt(y) => found[x] = found[y]

Wit_C5_FindLeftmost ==
    /\ pc = "found"
    /\ \E T \in CustomTypes :
          /\ Cardinality({i \in 1..Len(Causes(comb.ab)) : Causes(comb.ab)[i].ty = T}) >= 2
          /\ Causes(comb.ab)[1].ty # T
          /\ found.ab[T].some
          /\ found.ab[T].ref = Causes(comb.ab)[2].at
    /\ \A T \in TypeIds : ~found.c[T].some

(***************************************************************************)
(* Properties of the context scope.                                        *)
(***************************************************************************)
\* The cell passed to the innermost call of set among the first n calls in
\* progress on thread t; Null when none of them is a call of set.
RECURSIVE EnteredCell(_, _)
EnteredCell(t, n) ==
    IF n = 0 THEN Null
    ELSE IF stack[t][n].op = "set" THEN stack[t][n].cell
    ELSE EnteredCell(t, n - 1)

\* Thread t is inside the body of some call of set.
Entered(t) == \E k \in 1..Len(stack[t]) : stack[t][k].op = "set"

\* The function given to with is running on thread t.
InWith(t) == stack[t] # <<>> /\ Top(t).op = "with"

\* C6: is_set returns false before set is called and after it returned, and
\* true throughout the body; a with call inside the body gets the instance
\* passed to set, and what it changes on that instance stays changed after
\* set returns.
Thm_C6_ScopeLifeCycle ==
    /\ [](\A t \in Threads :
            /\ ret[t] = "true" => Entered(t)
            /\ ret[t] = "false" => ~Entered(t)
            /\ \A k \in 1..Len(stack[t]) :
                  stack[t][k].op = "with" =>
                      /\ EnteredCell(t, k - 1) # Null
                      /\ stack[t][k].cell = EnteredCell(t, k - 1))
    /\ [][/\ mutated \subseteq mutated'
          /\ \A t \in Threads :
                Mutate(t) => mutated' = mutated \cup {EnteredCell(t, Len(stack[t]))}]_vars

Wit_C6_ScopeLifeCycle ==
    \E t \in Threads :
        /\ Running(t)
        /\ stack[t] = <<>>
        /\ ret[t] = "false"
        /\ \E cell \in mutated : Owner(cell) = cur[t]

\* C7: nested calls of set are stack-disciplined: the scope is the cell of
\* the innermost call in progress, so the inner cell during the inner body,
\* the outer cell again once the inner call returned, and none once the
\* outermost call returned.
Thm_C7_NestedScopes ==
    \A t \in Threads :
        Running(t) =>
            /\ CONTEXT[t] = EnteredCell(t, Len(stack[t]))
            /\ stack[t] = <<>> => CONTEXT[t] = Null
            /\ \A k \in 1..Len(stack[t]) :
                  stack[t][k].op = "set" => stack[t][k].prev = EnteredCell(t, k - 1)

Wit_C7_NestedScopes ==
    \E t \in Threads, c1, c2 \in Cells :
        /\ c1 # c2
        /\ Running(t)
        /\ stack[t] = <<SetFrame(c1, Null), SetFrame(c2, c1), WithFrame(c2)>>
        /\ CONTEXT[t] = c2
        /\ c1 \in mutated

\* C8: with called while no scope is entered panics: its function is not
\* run and nothing is returned; the panic unwinds the thread's calls and
\* ends the task it ran as faulted, and no other task.
Thm_C8_WithOutsideScope ==
    /\ [][\A t \in Threads :
            (CONTEXT[t] = Null /\ WithCall(t)) =>
                /\ ret'[t] = "panic: not set"
                /\ mode'[t] = "unwind"
                /\ stack' = stack /\ borrow' = borrow /\ mutated' = mutated
                /\ task' = task]_vars
    /\ [][\A t \in Threads :
            mode[t] = "unwind" =>
                /\ ~Mutate(t)
                /\ mode'[t] \in {"unwind", "idle"}
                /\ Len(stack'[t]) <= Len(stack[t])
                /\ mode'[t] = "idle" =>
                      /\ task'[cur[t]] = "faulted"
                      /\ \A j \in Tasks \ {cur[t]} : task'[j] = task[j]]_vars

Wit_C8_WithOutsideScope ==
    \E t \in Threads :
        /\ ret[t] = "panic: not set"
        /\ mode[t] = "unwind"
        /\ stack[t] = <<>>
        /\ \E u \in Threads \ {t} : Running(u) /\ InWith(u)

\* C9: the scope is torn down on every way out of set: after a normal
\* return, while and after a panic unwinds, and for a task that is suspended,
\* cancelled, completed or aborted, no cell stays installed.
Thm_C9_TeardownOnEveryExit ==
    /\ \A t \in Threads :
          /\ mode[t] = "unwind" => CONTEXT[t] = EnteredCell(t, Len(stack[t]))
          /\ mode[t] = "idle" => (stack[t] = <<>> /\ CONTEXT[t] = Null)
    /\ \A i \in Tasks :
          task[i] # "running" =>
              /\ \A t \in Threads : CONTEXT[t] = Null \/ Owner(CONTEXT[t]) # i
              /\ \A cell \in Cells : Owner(cell) = i => borrow[cell] = 0

Wit_C9_TeardownOnEveryExit ==
    \E t \in Threads, i, j \in Tasks :
        /\ mode[t] = "unwind"
        /\ ret[t] = "panic: already borrowed"
        /\ stack[t] = <<>>
        /\ CONTEXT[t] = Null
        /\ cur[t] = i
        /\ task[j] = "cancelled"
        /\ \E cell \in mutated : Owner(cell) = j

\* C10: invocations running at the same time never get each other's
\* Context: every with call of an invocation borrows a cell that invocation
\* passed to set, the cell in a thread's slot belongs to the invocation the
\* thread runs, and an invocation runs on one thread at a time.
Thm_C10_InvocationsIsolated ==
    /\ \A t \in Threads :
          /\ \A k \in 1..Len(stack[t]) :
                /\ stack[t][k].cell # Null
                /\ Owner(stack[t][k].cell) = cur[t]
                /\ stack[t][k].op = "with" =>
                      \E n \in 1..(k - 1) : stack[t][n] = SetFrame(stack[t][k].cell, stack[t][n].prev)
          /\ CONTEXT[t] # Null => Owner(CONTEXT[t]) = cur[t]
    /\ \A t, u \in Threads : (t # u /\ cur[t] # 0) => cur[t] # cur[u]

Wit_C10_InvocationsIsolated ==
    \E t, u \in Threads :
        /\ t # u
        /\ Running(t) /\ InWith(t)
        /\ Running(u) /\ InWith(u)
        /\ Top(t).cell # Top(u).cell
        /\ Top(t).cell \in mutated /\ Top(u).cell \in mutated

\* The cells of invocation i whose Context a function given to with changed:
\* i entered a scope and used it.
UsedCells(i) == {cell \in mutated : Owner(cell) = i}

\* C11: the scope survives suspension: when an invocation that entered a
\* scope and used it is suspended and then resumed, on any thread, its own
\* Context is ambient again (is_set is true, with gets its own cell).
Cex_C11_ScopeSurvivesSuspension ==
    [][\A t \in Threads, i \in Tasks :
          (task[i] = "suspended" /\ UsedCells(i) # {} /\ Poll(t, i)) =>
              /\ CONTEXT'[t] # Null
              /\ Owner(CONTEXT'[t]) = i]_vars

\* C19: mutable access to a Context is exclusive: at most one call of with
\* in progress holds a given cell, the cell is borrowed exactly while that
\* call is in progress, and a with call on a borrowed cell panics without
\* running its function.
WithHolders(cell) ==
    {<<t, k>> \in Threads \X (1..MaxDepth) :
        k <= Len(stack[t]) /\ stack[t][k] = WithFrame(cell)}

Thm_C19_ExclusiveAccess ==
    /\ \A cell \in Cells :
          /\ Cardinality(WithHolders(cell)) <= 1
          /\ borrow[cell] = (IF WithHolders(cell) = {} THEN 0 ELSE 1)
    /\ \A t \in Threads :
          ret[t] = "panic: already borrowed" =>
              /\ mode[t] = "unwind"
              /\ \A k \in 1..Len(stack[t]) :
                    stack[t][k].op = "with" => borrow[stack[t][k].cell] = 1

Wit_C19_ExclusiveAccess ==
    \E t \in Threads :
        /\ ret[t] = "panic: already borrowed"
        /\ mode[t] = "unwind"
        /\ InWith(t)
        /\ CONTEXT[t] = Top(t).cell
        /\ Cardinality(WithHolders(Top(t).cell)) = 1

(***************************************************************************)
(* Claims about the filter combinators.                                    *)
(***************************************************************************)
\* The positions in the log of chain k of an event of leaf x.
EventsAt(k, ev, x) == {i \in 1..Len(flog[k]) : flog[k][i] = <<ev, x>>}
Evaluated(k, x) == EventsAt(k, "start", x) # {}
Done(k) == Len(fres) >= k
IsOrAB == progs = <<Or(Leaf("a"), Leaf("b"))>>
IsAndAB == progs = <<And(Leaf("a"), Leaf("b"))>>
IsAssoc == Len(progs) = 2

\* C12: or is first-match-wins and strictly sequential: in an evaluation of
\* a.or(b), b is never started before a has completed; if a succeeds the
\* result is a's success and b is never evaluated; if a rejects and b
\* succeeds the result is b's success.
Thm_C12_OrFirstMatch ==
    IsOrAB =>
        /\ \A i \in EventsAt(1, "start", "b") :
              \E j \in EventsAt(1, "end", "a") : j < i
        /\ fout["a"].ok => ~Evaluated(1, "b")
        /\ Done(1) =>
              /\ fout["a"].ok => fres[1] = Ok(Extract("a"))
              /\ (~fout["a"].ok /\ fout["b"].ok) => fres[1] = Ok(Extract("b"))

Wit_C12_OrFirstMatch ==
    /\ IsOrAB
    /\ Done(1)
    /\ ~fout["a"].ok
    /\ fout["b"].ok
    /\ far["b"] > 0
    /\ Evaluated(1, "b")
    /\ fres[1] = Ok(Extract("b"))

\* C13: and is sequential composition with flattening: in an evaluation of
\* a.and(b), if a rejects the result is a's rejection and b is never
\* evaluated; if a succeeds and b rejects the result is b's rejection; if
\* both succeed with tuples of arity m and n the result is one flat tuple of
\* arity m+n, a's elements first and then b's, and an operand of arity 0
\* leaves the other operand's tuple unchanged.
Thm_C13_AndFlattens ==
    IsAndAB =>
        /\ ~fout["a"].ok => ~Evaluated(1, "b")
        /\ Done(1) =>
              /\ ~fout["a"].ok => fres[1] = Err(fout["a"].rej)
              /\ (fout["a"].ok /\ ~fout["b"].ok) => fres[1] = Err(fout["b"].rej)
              /\ (fout["a"].ok /\ fout["b"].ok) =>
                    /\ fres[1].ok
                    /\ Len(fres[1].ext) = far["a"] + far["b"]
                    /\ \A k \in 1..far["a"] : fres[1].ext[k] = <<"a", k>>
                    /\ \A k \in 1..far["b"] :
                          fres[1].ext[far["a"] + k] = <<"b", k>>
                    /\ far["a"] = 0 => fres[1].ext = Extract("b")
                    /\ far["b"] = 0 => fres[1].ext = Extract("a")

Wit_C13_AndFlattens ==
    /\ IsAndAB
    /\ Done(1)
    /\ fout["a"].ok
    /\ fout["b"].ok
    /\ far["a"] > 0
    /\ far["b"] > 0
    /\ Len(fres[1].ext) = far["a"] + far["b"]

\* C14: and is associative: (a.and(b)).and(c) and a.and(b.and(c)) give, on
\* the same input, the same outcome, the same flat extraction tuple on
\* success, the same rejection on failure, and evaluate a, b and c in the
\* same order with the same short-circuit point.
Thm_C14_AndAssociative ==
    (IsAssoc /\ Done(2)) =>
        /\ fres[1].ok = fres[2].ok
        /\ fres[1].ext = fres[2].ext
        /\ fres[1].rej = fres[2].rej
        /\ flog[1] = flog[2]

Wit_C14_AndAssociative ==
    /\ IsAssoc
    /\ Done(2)
    /\ fres[1].ok
    /\ Len(fres[1].ext) >= 3
    /\ \A x \in LeafIds : far[x] > 0 /\ Evaluated(2, x)

(***************************************************************************)
(* Claims about the command builders.                                      *)
(***************************************************************************)
\* C16: build fails when the command name is empty: whatever setters were
\* called after new(), if the name the builder holds when build is called is
\* the empty string, build returns an error and no command definition; if
\* the name is not empty, build returns the command definition.
Cex_C16_BuildFailsOnEmptyName ==
    [][Build =>
          IF Inner.meta.name = EmptyString
          THEN ~built'.ref.ok
          ELSE built' = Some(BuildOk(Inner))]_vars

\* The type a command struct stands for.
OwnType(command) ==
    CASE command.struct = "ChatInputCommand" -> ChatInput
      [] command.struct = "MessageCommand" -> Message
      [] command.struct = "UserCommand" -> User

\* C18: Command::ty returns the type of the command it is called on,
\* ChatInput for a ChatInputCommand, Message for a MessageCommand and User
\* for a UserCommand, whatever setters were applied to its builder.
Cex_C18_TyIsOwnType ==
    tyret.some => tyret.ref = OwnType(built.ref.value)

(***************************************************************************)
(* Claims about the argument filter.                                       *)
(***************************************************************************)
\* What the invocation holds for the argument the filter names.
Named == invocation.ref[argfilter.ref.name]

\* C15: the string argument filter has exactly three outcomes, decided by
\* the invocation: the argument it names is absent, and it rejects with a
\* "missing required argument" cause; the argument is present with a value
\* that is not a string, and it rejects with a "type mismatch" cause; the
\* argument is present with a string value, and it succeeds with that
\* string as its sole extracted value.
Cex_C15_StringArgOutcomes ==
    argout.some =>
        CASE ~Named.present ->
                argout.ref = Ready("Err", <<>>, "missing required argument")
          [] Named.present /\ Named.type # "String" ->
                argout.ref = Ready("Err", <<>>, "type mismatch")
          [] Named.present /\ Named.type = "String" ->
                argout.ref = Ready("Ok", <<Named.value>>, "")

(***************************************************************************)
(* Claims about snowflakes.                                                *)
(***************************************************************************)
\* The offset of an instant from the Discord epoch, in milliseconds.
Offset(d) == WrappingSub(TimestampMillis(d), DISCORD_EPOCH)

\* The instant has millisecond precision, is at or after the Discord epoch,
\* and its offset from the epoch fits in 42 bits.
InRange(d) ==
    /\ d.nanos % 1000000 = 0
    /\ ~Less(TimestampMillis(d), DISCORD_EPOCH)
    /\ Offset(d)[4] < 512
    /\ \A i \in 5..NumLimbs : Offset(d)[i] = 0

\* C17: snowflake round trip: for every instant dt with millisecond
\* precision at or after the Discord epoch whose offset from the epoch fits
\* in 42 bits, Snowflake::new(dt).timestamp() equals dt; the snowflake new
\* builds has its low 22 bits zero and the offset in the bits above them.
Thm_C17_SnowflakeRoundTrip ==
    (dt.some /\ InRange(dt.ref)) =>
        /\ flake.some =>
              /\ ~flake.ref.panic
              /\ flake.ref.inner[1] = 0
              /\ flake.ref.inner[2] = 0
              /\ \A i \in 3..NumLimbs : flake.ref.inner[i] = Offset(dt.ref)[i - 2]
        /\ stamp.some => stamp.ref = dt.ref

Wit_C17_SnowflakeRoundTrip ==
    /\ dt.some
    /\ dt.ref = DateTime(FromInt(1644320531), 922000000)
    /\ InRange(dt.ref)
    /\ flake.some
    /\ stamp.some
    /\ stamp.ref = dt.ref

====
